---- MODULE Spec2Model ----
(***************************************************************************)
(* Restfox auto-load: the cache service of packages/web-standalone        *)
(* (app.js, auto-load.js) and the auto-load run of packages/ui            *)
(* (helpers/auto-load.ts), as state machines.                             *)
(***************************************************************************)
EXTENDS Integers, Sequences, FiniteSets, TLC

(***************************************************************************)
(* Bounds and program constants                                            *)
(***************************************************************************)
\* auto-load.js:30 and :73, "const maxAttempts = 60"
maxAttempts == 60
\* number of reload commands issued over the process lifetime
MaxReloads == 1
\* number of changes of the outside world (served contents, config file, disk)
MaxChanges == 1
\* number of fetches that fail while the service answers requests
MaxFailures == 1
\* number of lines of a config document handed to the fallback parser
MaxLines == 4

(***************************************************************************)
(* Values                                                                  *)
(***************************************************************************)
\* A source path is the sequence of its '/'-separated segments.
PathAX == <<"a", "x.json">>
PathBX == <<"b", "x.json">>
PathE  == <<"env", "dev.json">>
Paths == {PathAX, PathBX, PathE}

\* filePath.split('/').pop()
Basename(p) == p[Len(p)]

\* Body texts a server can answer with, and what JSON.parse / JSON.stringify
\* make of them.  Servers answer pretty-printed JSON; JSON.stringify writes the
\* compact form; "<html>" is no JSON.
Pretty1 == "{ \"v\": 1 }"
Pretty2 == "{ \"v\": 2 }"
Compact1 == "{\"v\":1}"
Compact2 == "{\"v\":2}"
Html == "<html>"
BodyTexts == {Pretty1, Pretty2, Html}

IsJSON(text) == text \in {Pretty1, Pretty2, Compact1, Compact2}
JSONparse(text) ==
    CASE text \in {Pretty1, Compact1} -> [v |-> 1]
      [] text \in {Pretty2, Compact2} -> [v |-> 2]
JSONstringify(val) == IF val.v = 1 THEN Compact1 ELSE Compact2

\* What one fetch can meet: the connection fails (fetch rejects, "down"), the
\* server answers a non-ok status ("notfound"), or it answers 200 with the body
\* text it serves at that moment.
FetchFailures == {"down", "notfound"}

\* The YAML config document as readFile + yamlLoad see it.
MkConfig(cs, es) ==
    [readable |-> TRUE, isObject |-> TRUE, collections |-> cs, environments |-> es]
CfgMissing ==
    [readable |-> FALSE, isObject |-> FALSE, collections |-> <<>>, environments |-> <<>>]
CfgScalar ==
    [readable |-> TRUE, isObject |-> FALSE, collections |-> <<>>, environments |-> <<>>]

NoResult == [isNull |-> TRUE, collections |-> <<>>, environments |-> <<>>]
EmptyResult == [isNull |-> FALSE, collections |-> <<>>, environments |-> <<>>]
NoResponse ==
    [present |-> FALSE, ok |-> FALSE, text |-> "", bodyUsed |-> FALSE, of |-> <<>>]

Kinds == {"collection", "env"}
Names == {Basename(p) : p \in Paths}
BlobKeys == Kinds \X Names
AbsentFile == [state |-> "absent", text |-> "", by |-> -1]
AbsentManifest ==
    [state |-> "absent", collections |-> <<>>, environments |-> <<>>, by |-> -1]

Cycles == 0 .. MaxReloads
StartupCycle == 0

VARIABLES
    cfgFile,            \* the config document on disk
    remote,             \* remote[p]: the body text the server of p serves now
    diskOk,             \* whether the cache directory can be written
    changes,            \* world changes so far
    failLeft,           \* failing fetches still to come (-1: no limit)
    autoLoadedObjects,  \* app.js:11
    holder,             \* the cycle whose return value autoLoadedObjects holds
    blobs,              \* .auto-load-cache/collection-<name>, env-<name>
    manifest,           \* .auto-load-cache/manifest.json
    cyc,                \* cyc[c]: the call of loadConfiguredObjects of cycle c
    reloadReply,        \* reloadReply[c]: answer of POST /reload c
    query,              \* the objects query in flight
    AUTO_LOAD,          \* constants.AUTO_LOAD, the switches of the run (Enabled
                        \* is its ENABLED, a reserved word here)
    configDoc,          \* what readConfigFile makes of the config document
    sourceFiles,        \* sourceFiles[s]: what readLocalFile makes of source s
    workspaceEnvs,      \* activeWorkspace.environments
    store,              \* the workspace store
    run,                \* the locals of the call of autoLoadData
    ioLog,              \* the reads, commits and dispatches of the run, in order
    poll,               \* the readiness poll of a run in the delegated topology
    yaml                \* the call of parseSimpleYaml: its input and its locals

world == <<cfgFile, remote, diskOk, changes>>
files == <<blobs, manifest>>
http == <<reloadReply, query>>
svars == <<world, failLeft, autoLoadedObjects, holder, files, cyc, http>>
ovars == <<AUTO_LOAD, configDoc, sourceFiles, workspaceEnvs, store, run, ioLog, poll,
          yaml>>
vars == <<svars, ovars>>

(***************************************************************************)
(* loadConfiguredObjects (auto-load.js:7-119)                              *)
(***************************************************************************)
\* The locals of one call.  phase/idx name the source the for-loops are at;
\* nFetch, nWait and gotOk count the fetches and waits spent on that source and
\* whether one of them was answered ok; wantC/wantE list the sources of this
\* call for which a fetch was answered ok with a JSON body, nExhausted counts
\* the sources that used up their attempts.
IdleCycle ==
    [pc |-> "idle", config |-> CfgMissing, phase |-> "collections", idx |-> 0,
     attempts |-> 0, response |-> NoResponse, result |-> NoResult,
     widx |-> 0, wopen |-> FALSE,
     nFetch |-> 0, nWait |-> 0, gotOk |-> FALSE, okText |-> "",
     wantC |-> <<>>, wantE |-> <<>>, nExhausted |-> 0]

SourcesOf(cfg, phase) ==
    IF phase = "collections" THEN cfg.collections ELSE cfg.environments

CurrentPath(r) == SourcesOf(r.config, r.phase)[r.idx]

\* Ghost: close the books of the source the loop leaves.
CloseSource(r) ==
    LET e == [name |-> Basename(CurrentPath(r)), content |-> JSONparse(r.okText)]
        good == r.idx > 0 /\ r.gotOk /\ IsJSON(r.okText)
    IN  [r EXCEPT !.wantC = IF good /\ r.phase = "collections" THEN Append(@, e) ELSE @,
                  !.wantE = IF good /\ r.phase = "environments" THEN Append(@, e) ELSE @,
                  !.nExhausted = IF r.attempts = maxAttempts THEN @ + 1 ELSE @,
                  !.nFetch = 0, !.nWait = 0, !.gotOk = FALSE, !.okText = ""]

\* auto-load.js:27-29 / 70-72 / 112: the for-loops move to the next source
\* (attempts = 0, fetch), from the collections to the environments, and from
\* there to cacheLoadedObjects (mkdir).
RECURSIVE NextSource(_)
NextSource(r) ==
    IF r.idx < Len(SourcesOf(r.config, r.phase))
    THEN [r EXCEPT !.idx = @ + 1, !.attempts = 0, !.pc = "fetching"]
    ELSE IF r.phase = "collections"
         THEN NextSource([r EXCEPT !.phase = "environments", !.idx = 0])
         ELSE [r EXCEPT !.pc = "mkdir", !.widx = 1, !.wopen = FALSE]

Advance(r) == NextSource(CloseSource(r))

\* auto-load.js:58-61 / 101-104
PushResult(r, text) ==
    LET e == [name |-> Basename(CurrentPath(r)), content |-> JSONparse(text)]
    IN  IF r.phase = "collections"
        THEN [r EXCEPT !.result.collections = Append(@, e)]
        ELSE [r EXCEPT !.result.environments = Append(@, e)]

\* auto-load.js:48-54: after the while-loop; a missing or non-ok response
\* throws (caught at :62, the source is skipped), otherwise response.text().
AfterLoop(r) ==
    IF ~r.response.present \/ ~r.response.ok
    THEN Advance(r)
    ELSE [r EXCEPT !.pc = "reading"]

\* Mutant of AfterFailedAttempt: the wait is also taken after the last attempt
\* and the loop goes round once more.
AfterFailedAttemptOffByOne(r) ==
    LET a == r.attempts + 1
    IN  IF a <= maxAttempts
        THEN [r EXCEPT !.attempts = a, !.pc = "waiting"]
        ELSE AfterLoop([r EXCEPT !.attempts = a])

\* auto-load.js:42-45: attempts++, then wait unless the attempts are used up.
AfterFailedAttempt(r) ==
    LET a == r.attempts + 1
    IN  IF a < maxAttempts
        THEN [r EXCEPT !.attempts = a, !.pc = "waiting"]
        ELSE AfterLoop([r EXCEPT !.attempts = a])

\* auto-load.js:34-40: one fetch is answered.
AfterFetch(r, met) ==
    LET p == CurrentPath(r)
        resp == [present |-> TRUE, ok |-> met \notin FetchFailures, text |-> met,
                 bodyUsed |-> FALSE, of |-> p]
        r1 == [r EXCEPT !.nFetch = @ + 1]
    IN  IF met = "down"
        THEN AfterFailedAttempt(r1)
        ELSE IF resp.ok
             THEN AfterLoop([r1 EXCEPT !.response = resp, !.gotOk = TRUE, !.okText = met])
             ELSE AfterFailedAttempt([r1 EXCEPT !.response = resp])

\* Mutant of AfterText: the body of a response can be read again.
AfterTextRereadable(r) ==
    IF IsJSON(r.response.text)
    THEN Advance(PushResult(r, r.response.text))
    ELSE Advance(r)

\* auto-load.js:54-61: response.text() rejects when the body was read before
\* (a response left over from an earlier source); JSON.parse throws on a body
\* that is no JSON; both are caught at :62.
AfterText(r) ==
    IF r.response.bodyUsed
    THEN Advance(r)
    ELSE LET r1 == [r EXCEPT !.response.bodyUsed = TRUE]
         IN  IF IsJSON(r.response.text)
             THEN Advance(PushResult(r1, r.response.text))
             ELSE Advance(r1)

\* Mutant of AfterConfig: an unreadable or non-object config yields an empty
\* result instead of null.
AfterConfigEmptyOnBadDoc(r, doc) ==
    IF ~doc.readable \/ ~doc.isObject
    THEN [r EXCEPT !.pc = "returning", !.result = EmptyResult]
    ELSE NextSource([r EXCEPT !.config = doc, !.result = EmptyResult,
                              !.phase = "collections", !.idx = 0])

\* auto-load.js:10-21: readFile + yamlLoad of the config document.
AfterConfig(r, doc) ==
    IF ~doc.readable \/ ~doc.isObject
    THEN [r EXCEPT !.pc = "returning", !.result = NoResult]
    ELSE NextSource([r EXCEPT !.config = doc, !.result = EmptyResult,
                              !.phase = "collections", !.idx = 0])

CycleReadConfig(c) ==
    /\ cyc[c].pc = "config"
    /\ cyc' = [cyc EXCEPT ![c] = AfterConfig(@, cfgFile)]
    /\ UNCHANGED <<ovars, world, failLeft, autoLoadedObjects, holder, files, http>>

CycleFetch(c) ==
    /\ cyc[c].pc = "fetching"
    /\ \E met \in {remote[CurrentPath(cyc[c])]}
                     \cup (IF failLeft # 0 THEN FetchFailures ELSE {}) :
          /\ cyc' = [cyc EXCEPT ![c] = AfterFetch(@, met)]
          /\ failLeft' = IF met \in FetchFailures /\ failLeft > 0
                         THEN failLeft - 1 ELSE failLeft
    /\ UNCHANGED <<ovars, world, autoLoadedObjects, holder, files, http>>

\* auto-load.js:44: the one-second wait is over.
CycleWait(c) ==
    /\ cyc[c].pc = "waiting"
    /\ cyc' = [cyc EXCEPT ![c].pc = "fetching", ![c].nWait = @ + 1]
    /\ UNCHANGED <<ovars, world, failLeft, autoLoadedObjects, holder, files, http>>

CycleReadBody(c) ==
    /\ cyc[c].pc = "reading"
    /\ cyc' = [cyc EXCEPT ![c] = AfterText(@)]
    /\ UNCHANGED <<ovars, world, failLeft, autoLoadedObjects, holder, files, http>>

(***************************************************************************)
(* cacheLoadedObjects (auto-load.js:121-148)                               *)
(***************************************************************************)
\* The blobs one call writes, in order: auto-load.js:127-136.
BlobWrites(objects) ==
    [i \in 1 .. Len(objects.collections) |->
        [key |-> <<"collection", objects.collections[i].name>>,
         text |-> JSONstringify(objects.collections[i].content)]]
    \o
    [i \in 1 .. Len(objects.environments) |->
        [key |-> <<"env", objects.environments[i].name>>,
         text |-> JSONstringify(objects.environments[i].content)]]

NamesOf(entries) == [i \in 1 .. Len(entries) |-> entries[i].name]

\* auto-load.js:139-143 (the timestamp is left out; "by" records the writer)
ManifestOf(objects, c) ==
    [state |-> "ok", collections |-> NamesOf(objects.collections),
     environments |-> NamesOf(objects.environments), by |-> c]

\* auto-load.js:145-147 and :114: an error of mkdir or writeFile is caught and
\* logged, and loadConfiguredObjects returns its result all the same.
CacheFailed(r) == [r EXCEPT !.pc = "returning", !.wopen = FALSE]

\* auto-load.js:124
CacheMkdir(c) ==
    /\ cyc[c].pc = "mkdir"
    /\ cyc' = [cyc EXCEPT ![c] =
                 IF ~diskOk THEN CacheFailed(@)
                 ELSE IF Len(BlobWrites(@.result)) = 0
                      THEN [@ EXCEPT !.pc = "manifest"]
                      ELSE [@ EXCEPT !.pc = "writing"]]
    /\ UNCHANGED <<ovars, world, failLeft, autoLoadedObjects, holder, files, http>>

\* auto-load.js:129 / 135: writeFile opens and truncates the blob ...
CacheWriteOpen(c) ==
    /\ cyc[c].pc = "writing" /\ ~cyc[c].wopen
    /\ LET w == BlobWrites(cyc[c].result)[cyc[c].widx]
       IN  IF ~diskOk
           THEN /\ cyc' = [cyc EXCEPT ![c] = CacheFailed(@)]
                /\ UNCHANGED blobs
           ELSE /\ cyc' = [cyc EXCEPT ![c].wopen = TRUE]
                /\ blobs' = [blobs EXCEPT ![w.key] =
                               [state |-> "torn", text |-> "", by |-> c]]
    /\ UNCHANGED <<ovars, world, failLeft, autoLoadedObjects, holder, manifest, http>>

\* ... and then writes it; a reader in between sees a torn file.
CacheWriteDone(c) ==
    /\ cyc[c].pc = "writing" /\ cyc[c].wopen
    /\ LET ws == BlobWrites(cyc[c].result)
           w == ws[cyc[c].widx]
       IN  IF ~diskOk
           THEN /\ cyc' = [cyc EXCEPT ![c] = CacheFailed(@)]
                /\ UNCHANGED blobs
           ELSE /\ cyc' = [cyc EXCEPT ![c].wopen = FALSE,
                                      ![c].widx = @ + 1,
                                      ![c].pc = IF cyc[c].widx = Len(ws)
                                                THEN "manifest" ELSE "writing"]
                /\ blobs' = [blobs EXCEPT ![w.key] =
                               [state |-> "ok", text |-> w.text, by |-> c]]
    /\ UNCHANGED <<ovars, world, failLeft, autoLoadedObjects, holder, manifest, http>>

\* auto-load.js:144: the manifest is written last, the same way.
CacheManifestOpen(c) ==
    /\ cyc[c].pc = "manifest" /\ ~cyc[c].wopen
    /\ IF ~diskOk
       THEN /\ cyc' = [cyc EXCEPT ![c] = CacheFailed(@)]
            /\ UNCHANGED manifest
       ELSE /\ cyc' = [cyc EXCEPT ![c].wopen = TRUE]
            /\ manifest' = [AbsentManifest EXCEPT !.state = "torn", !.by = c]
    /\ UNCHANGED <<ovars, world, failLeft, autoLoadedObjects, holder, blobs, http>>

CacheManifestDone(c) ==
    /\ cyc[c].pc = "manifest" /\ cyc[c].wopen
    /\ IF ~diskOk
       THEN /\ cyc' = [cyc EXCEPT ![c] = CacheFailed(@)]
            /\ UNCHANGED manifest
       ELSE /\ cyc' = [cyc EXCEPT ![c].wopen = FALSE, ![c].pc = "returning"]
            /\ manifest' = ManifestOf(cyc[c].result, c)
    /\ UNCHANGED <<ovars, world, failLeft, autoLoadedObjects, holder, blobs, http>>

(***************************************************************************)
(* app.js: startup load, the three endpoints                               *)
(***************************************************************************)
\* app.js:56-58: loadConfiguredObjects has returned, the reload answers.
ReloadAnswer(c, ret) == "success"

\* app.js:14 / :55: "autoLoadedObjects = await loadConfiguredObjects(...)".
CycleReturn(c) ==
    /\ cyc[c].pc = "returning"
    /\ autoLoadedObjects' = cyc[c].result
    /\ holder' = c
    /\ cyc' = [cyc EXCEPT ![c].pc = "done"]
    /\ reloadReply' = IF c = StartupCycle THEN reloadReply
                      ELSE [reloadReply EXCEPT ![c] = ReloadAnswer(c, cyc[c].result)]
    /\ UNCHANGED <<ovars, world, failLeft, files, query>>

\* app.js:53-55: POST /api/auto-load/reload arrives.
Reload(c) ==
    /\ c # StartupCycle
    /\ cyc[c].pc = "idle"
    /\ \A d \in 1 .. c - 1 : cyc[d].pc # "idle"
    /\ cyc' = [cyc EXCEPT ![c].pc = "config"]
    /\ query' = [query EXCEPT !.quiet = @ /\ query.pc \in {"idle", "done"}]
    /\ UNCHANGED <<ovars, world, failLeft, autoLoadedObjects, holder, files,
                   reloadReply>>

\* app.js:36-42: GET /api/auto-load/status.  The handler runs in one piece
\* and writes nothing; StatusReply is what it answers in the current state.
StatusOf(objects) ==
    [initialized |-> ~objects.isNull,
     hasCollections |-> Len(objects.collections) > 0,
     hasEnvironments |-> Len(objects.environments) > 0]

StatusReply == StatusOf(autoLoadedObjects)

StatusQuery ==
    /\ StatusReply.initialized \in BOOLEAN
    /\ UNCHANGED <<ovars, world, failLeft, autoLoadedObjects, holder, files, cyc, http>>

(***************************************************************************)
(* getCachedObjects (auto-load.js:150-186) behind GET /api/auto-load/objects*)
(* (app.js:44-51)                                                          *)
(***************************************************************************)
\* since/quiet are ghosts: the cycle that held autoLoadedObjects when the
\* request arrived, and whether no cycle has been running since it arrived.
IdleQuery ==
    [pc |-> "idle", man |-> AbsentManifest, idx |-> 0, result |-> EmptyResult,
     reply |-> "none", since |-> -1, quiet |-> FALSE]

InFlight(c) == cyc[c].pc \notin {"idle", "done"}

\* The blobs one call reads, in order: auto-load.js:162-179.
BlobReads(man) ==
    [i \in 1 .. Len(man.collections) |-> <<"collection", man.collections[i]>>]
    \o
    [i \in 1 .. Len(man.environments) |-> <<"env", man.environments[i]>>]

\* app.js:46-50: null answers 404, anything else is sent as it is.
Answer(q, objects) ==
    [q EXCEPT !.pc = "done",
              !.reply = IF objects.isNull THEN "404" ELSE "200",
              !.result = objects]

\* Mutant of QueryStart: an objects query that finds no manifest yet starts a
\* fetch-and-cache cycle of its own.
QueryStartTriggersLoad ==
    /\ query.pc \in {"idle", "done"}
    /\ query' = [IdleQuery EXCEPT !.pc = "manifest", !.since = holder,
                                  !.quiet = \A c \in Cycles : ~InFlight(c)]
    /\ cyc' = [c \in Cycles |->
                 IF c # StartupCycle /\ cyc[c].pc = "idle" /\ manifest.state # "ok"
                 THEN [cyc[c] EXCEPT !.pc = "config"] ELSE cyc[c]]
    /\ UNCHANGED <<ovars, world, failLeft, autoLoadedObjects, holder, files,
                   reloadReply>>

\* app.js:44-45: GET /api/auto-load/objects arrives.
QueryStart ==
    /\ query.pc \in {"idle", "done"}
    /\ query' = [IdleQuery EXCEPT !.pc = "manifest", !.since = holder,
                                  !.quiet = \A c \in Cycles : ~InFlight(c)]
    /\ UNCHANGED <<ovars, world, failLeft, autoLoadedObjects, holder, files, cyc,
                   reloadReply>>

\* auto-load.js:153-154: readFile + JSON.parse of the manifest; a missing or
\* torn manifest throws, which :182-185 turn into null.
AfterManifest(q, file) ==
    IF file.state # "ok"
    THEN Answer(q, NoResult)
    ELSE IF Len(BlobReads(file)) = 0
         THEN Answer([q EXCEPT !.man = file], EmptyResult)
         ELSE [q EXCEPT !.pc = "blobs", !.man = file, !.idx = 1]

QueryReadManifest ==
    /\ query.pc = "manifest"
    /\ query' = AfterManifest(query, manifest)
    /\ UNCHANGED <<ovars, world, failLeft, autoLoadedObjects, holder, files, cyc,
                   reloadReply>>

\* auto-load.js:163-168 / 173-178: readFile + JSON.parse of one blob.
AfterBlob(q, file) ==
    LET key == BlobReads(q.man)[q.idx]
        e == [name |-> key[2], content |-> JSONparse(file.text)]
        res == IF key[1] = "collection"
               THEN [q.result EXCEPT !.collections = Append(@, e)]
               ELSE [q.result EXCEPT !.environments = Append(@, e)]
    IN  IF file.state # "ok" \/ ~IsJSON(file.text)
        THEN Answer(q, NoResult)
        ELSE IF q.idx = Len(BlobReads(q.man))
             THEN Answer(q, res)
             ELSE [q EXCEPT !.idx = @ + 1, !.result = res]

QueryReadBlob ==
    /\ query.pc = "blobs"
    /\ query' = AfterBlob(query, blobs[BlobReads(query.man)[query.idx]])
    /\ UNCHANGED <<ovars, world, failLeft, autoLoadedObjects, holder, files, cyc,
                   reloadReply>>

(***************************************************************************)
(* The outside world                                                       *)
(***************************************************************************)
ConfigDocs ==
    {CfgMissing, CfgScalar,
     MkConfig(<<PathAX>>, <<PathE>>),
     MkConfig(<<PathAX, PathBX>>, <<>>)}

InitRemote ==
    [p \in Paths |-> IF p \in {PathAX, PathE} THEN Pretty1 ELSE Pretty2]

\* A server starts to serve another body.
ChangeRemote(p, text) ==
    /\ changes < MaxChanges
    /\ text # remote[p]
    /\ remote' = [remote EXCEPT ![p] = text]
    /\ changes' = changes + 1
    /\ UNCHANGED <<ovars, cfgFile, diskOk, failLeft, autoLoadedObjects, holder, files, cyc, http>>

\* The config document is edited, removed or restored.
ChangeConfig(doc) ==
    /\ changes < MaxChanges
    /\ doc # cfgFile
    /\ cfgFile' = doc
    /\ changes' = changes + 1
    /\ UNCHANGED <<ovars, remote, diskOk, failLeft, autoLoadedObjects, holder, files, cyc, http>>

\* The cache directory stops or starts being writable.
ChangeDisk ==
    /\ changes < MaxChanges
    /\ diskOk' = ~diskOk
    /\ changes' = changes + 1
    /\ UNCHANGED <<ovars, cfgFile, remote, failLeft, autoLoadedObjects, holder, files, cyc, http>>

(***************************************************************************)
(* packages/ui/src/helpers/auto-load.ts: the values of a run               *)
(***************************************************************************)
\* Tree nodes are [id, parentId] (parentId 0: none), plugins [collectionId]
\* (0: none), environments [name, v].  What readLocalFile makes of a source
\* (auto-load.ts:121-180): null, or a FileContent whose content is a
\* collection export (tree, plugins, embedded environments; malformed when no
\* converter accepts it; postmanV1 when the Postman converter answers a bare
\* array), or an environment file (an array "items" or one object "single").
Node(id, parent) == [id |-> id, parentId |-> parent]
Plugin(cid) == [collectionId |-> cid]
Env(name, v) == [name |-> name, v |-> v]
NoEnv == Env("", 0)

NoFile ==
    [readable |-> FALSE, name |-> "", malformed |-> FALSE, postmanV1 |-> FALSE,
     tree |-> <<>>, plugins |-> <<>>, environments |-> <<>>,
     isArray |-> FALSE, items |-> <<>>, single |-> NoEnv]
CollectionFile(name, tree, plugins, envs) ==
    [NoFile EXCEPT !.readable = TRUE, !.name = name, !.tree = tree,
                   !.plugins = plugins, !.environments = envs]
MalformedFile(name) == [NoFile EXCEPT !.readable = TRUE, !.name = name, !.malformed = TRUE]
EnvArrayFile(name, items) ==
    [NoFile EXCEPT !.readable = TRUE, !.name = name, !.isArray = TRUE, !.items = items]
EnvObjectFile(name, e) ==
    [NoFile EXCEPT !.readable = TRUE, !.name = name, !.single = e]

\* The ids generateNewIdsForTree hands out are fresh: they lie above every id
\* of an import.
FreshIdBase == 100

ImportTypes == {"Postman", "Insomnia", "Restfox", "OpenAPI", "Curl"}

\* What readConfigFile returns (auto-load.ts:35-75): null when the document
\* cannot be read (:38-41, :71-74) or does not parse to an object (:65-68),
\* else the parsed ConfigFile.  cause tells the two nulls apart.
NoConfigData ==
    [isNull |-> TRUE, cause |-> "unreadable", collections |-> <<>>, environments |-> <<>>]
InvalidConfigData == [NoConfigData EXCEPT !.cause = "notObject"]
ConfigData(cs, es) ==
    [isNull |-> FALSE, cause |-> "", collections |-> cs, environments |-> es]

\* AutoLoadResult (auto-load.ts:14-19); error "" stands for no error key.
NoReturn ==
    [returned |-> FALSE, success |-> FALSE, error |-> "",
     collectionsLoaded |-> 0, environmentsLoaded |-> 0]
Result(success, error, nc, ne) ==
    [returned |-> TRUE, success |-> success, error |-> error,
     collectionsLoaded |-> nc, environmentsLoaded |-> ne]

\* The locals of autoLoadData (auto-load.ts:289-292, 295, 308, 352); ridx and
\* idx are the positions of the read loop and of the processing loop, nextId
\* the ids handed out so far; converted and appended are ghosts: the sources
\* that were read and converted without error, and those whose tree was
\* appended to the batch.
IdleRun ==
    [pc |-> "start",
     totalCollectionsLoaded |-> 0, totalEnvironmentsLoaded |-> 0,
     allCollectionTree |-> <<>>, allPlugins |-> <<>>,
     configData |-> NoConfigData,
     collectionFiles |-> <<>>, environmentFiles |-> <<>>,
     ridx |-> 0, idx |-> 0, nextId |-> 0,
     ret |-> NoReturn, converted |-> <<>>, appended |-> <<>>, counted |-> <<>>]

\* One entry of ioLog: the operation, the source or the outcome it is about,
\* the payload (the environment list of a commit, the tree and the plugins of
\* a dispatch), the message of a failed dispatch.
LogEntry(op, what, payload, note) ==
    [op |-> op, what |-> what, payload |-> payload, note |-> note]

\* The readiness poll of the delegated topology: the polls and the delays
\* spent, whether a poll was answered initialized, the config fetched.
IdlePoll ==
    [pc |-> "idle", attempts |-> 0, waits |-> 0, initialized |-> FALSE,
     config |-> CfgMissing]

\* The ConfigFile under construction (auto-load.ts:81): a key is undefined
\* until its header was met.
EmptyConfigFile ==
    [hasCollections |-> FALSE, collections |-> <<>>,
     hasEnvironments |-> FALSE, environments |-> <<>>]

\* The input and the locals of one call (auto-load.ts:81-83); currentSection
\* "" is null; fromC and fromE are ghosts: the numbers of the lines the entries
\* of the two lists were taken from.
IdleYaml ==
    [pc |-> "idle", lines |-> <<>>, idx |-> 0, currentSection |-> "",
     result |-> EmptyConfigFile, fromC |-> <<>>, fromE |-> <<>>]

(***************************************************************************)
(* Helpers the run imports from the rest of the UI package                 *)
(***************************************************************************)
IndexOfName(list, name) ==
    IF \E i \in 1 .. Len(list) : list[i].name = name
    THEN CHOOSE i \in 1 .. Len(list) :
            list[i].name = name /\ \A j \in 1 .. i - 1 : list[j].name # name
    ELSE 0

\* mergeArraysByProperty(existing, incoming, 'name') of '@/utils/array', after
\* the description of the Environment Merger: an incoming entry replaces the
\* entry of its name in place, an entry with a new name is appended.
RECURSIVE mergeArraysByProperty(_, _)
mergeArraysByProperty(existing, incoming) ==
    IF Len(incoming) = 0 THEN existing
    ELSE LET e == Head(incoming)
             i == IndexOfName(existing, e.name)
         IN  mergeArraysByProperty(
                 IF i = 0 THEN Append(existing, e) ELSE [existing EXCEPT ![i] = e],
                 Tail(incoming))

\* generateNewIdsForTree of '@/helpers', after the description of the
\* Identifier Remapper: every node gets a fresh id, parentId follows, and the
\* mapping old id -> new id is returned.  base: the ids handed out before.
NewIdMapping(tree, base) ==
    [old \in {tree[i].id : i \in 1 .. Len(tree)} |->
        FreshIdBase + base + (CHOOSE i \in 1 .. Len(tree) : tree[i].id = old)]

generateNewIdsForTree(tree, base) ==
    LET m == NewIdMapping(tree, base)
    IN  [i \in 1 .. Len(tree) |->
            Node(m[tree[i].id],
                 IF tree[i].parentId \in DOMAIN m THEN m[tree[i].parentId]
                 ELSE tree[i].parentId)]

\* The converters of '@/helpers' and '@/parsers/postman': each answers the
\* tree (and what else its format carries) of a document it accepts and
\* throws on one it does not.
ConverterThrows(file) == file.malformed

(***************************************************************************)
(* processImportFile (auto-load.ts:201-268)                                *)
(***************************************************************************)
\* Mutant of ConvertByType: the default branch falls back to the native format.
ConvertByTypeDefaultsToNative(file, importType) ==
    CASE importType = "Postman" ->
            [collectionTree |-> file.tree,
             plugins |-> IF file.postmanV1 THEN <<>> ELSE file.plugins,
             environments |-> <<>>]
      [] importType \in {"Insomnia", "OpenAPI"} ->
            [collectionTree |-> file.tree, plugins |-> <<>>, environments |-> <<>>]
      [] OTHER ->
            [collectionTree |-> file.tree, plugins |-> file.plugins,
             environments |-> file.environments]

\* auto-load.ts:213-249: the switch on the import type.
ConvertByType(file, importType) ==
    CASE importType = "Postman" ->
            [collectionTree |-> file.tree,
             plugins |-> IF file.postmanV1 THEN <<>> ELSE file.plugins,
             environments |-> <<>>]
      [] importType \in {"Insomnia", "OpenAPI"} ->
            [collectionTree |-> file.tree, plugins |-> <<>>, environments |-> <<>>]
      [] importType = "Restfox" ->
            [collectionTree |-> file.tree, plugins |-> file.plugins,
             environments |-> file.environments]
      [] OTHER ->
            [collectionTree |-> <<>>, plugins |-> <<>>, environments |-> <<>>]

Supported(importType) == importType \in {"Postman", "Insomnia", "Restfox", "OpenAPI"}

\* Mutant of RemapPlugins: the plugins keep the ids of the export.
RemapPluginsKeepsOld(plugins, mapping) == plugins

\* auto-load.ts:256-260
RemapPlugins(plugins, mapping) ==
    [i \in 1 .. Len(plugins) |->
        IF plugins[i].collectionId # 0 /\ plugins[i].collectionId \in DOMAIN mapping
        THEN Plugin(mapping[plugins[i].collectionId])
        ELSE plugins[i]]

\* The whole function: threw, or the remapped tree, plugins and environments.
processImportFile(file, importType, base) ==
    LET c == ConvertByType(file, importType)
    IN  IF Supported(importType) /\ ConverterThrows(file)
        THEN [threw |-> TRUE, collectionTree |-> <<>>, plugins |-> <<>>,
              environments |-> <<>>]
        ELSE IF Len(c.collectionTree) > 0
             THEN [threw |-> FALSE,
                   collectionTree |-> generateNewIdsForTree(c.collectionTree, base),
                   plugins |-> RemapPlugins(c.plugins, NewIdMapping(c.collectionTree, base)),
                   environments |-> c.environments]
             ELSE [threw |-> FALSE, collectionTree |-> c.collectionTree,
                   plugins |-> c.plugins, environments |-> c.environments]

(***************************************************************************)
(* autoLoadData (auto-load.ts:273-412)                                     *)
(***************************************************************************)
CommitOutcomes == {"ok", "throws"}
DispatchOutcomes ==
    {[kind |-> "ok", message |-> ""],
     [kind |-> "error", message |-> "tree rejected"],
     [kind |-> "throws", message |-> "store unavailable"]}

\* Mutant of OuterCatch: the error leaves autoLoadData.
OuterCatchRethrows(r, message) == [r EXCEPT !.pc = "threw"]

\* auto-load.ts:403-410: the catch around the run.
OuterCatch(r, message) ==
    [r EXCEPT !.pc = "done", !.ret = Result(FALSE, message, 0, 0)]

\* auto-load.ts:398-402
ReturnCounts(r) ==
    [r EXCEPT !.pc = "done",
              !.ret = Result(TRUE, "", r.totalCollectionsLoaded,
                             r.totalEnvironmentsLoaded)]

\* auto-load.ts:281-285 and :298-302
ReturnNothingLoaded(r) == [r EXCEPT !.pc = "done", !.ret = Result(TRUE, "", 0, 0)]

\* auto-load.ts:350-352 / :383: on to the environment files, or to the dispatch.
ToEnvironments(r) ==
    IF Len(r.configData.environments) > 0
    THEN [r EXCEPT !.pc = "readEnvironment", !.ridx = 1]
    ELSE [r EXCEPT !.pc = "dispatch"]

\* auto-load.ts:306-308
ToCollections(r) ==
    IF Len(r.configData.collections) > 0
    THEN [r EXCEPT !.pc = "readCollection", !.ridx = 1]
    ELSE ToEnvironments(r)

\* Mutant of DisabledCheck: the switch is not looked at.
DisabledCheckSkipped(r, enabled) == [r EXCEPT !.pc = "readConfig"]

\* auto-load.ts:280-286: the disabled check.
DisabledCheck(r, enabled) ==
    IF ~enabled THEN ReturnNothingLoaded(r) ELSE [r EXCEPT !.pc = "readConfig"]

OrchStart ==
    /\ run.pc = "start"
    /\ run' = DisabledCheck(run, AUTO_LOAD.Enabled)
    /\ UNCHANGED <<svars, poll, yaml, AUTO_LOAD, configDoc, sourceFiles, workspaceEnvs, store, ioLog>>

\* Mutant of AfterReadConfig: a config that cannot be resolved fails the run.
AfterReadConfigFails(r, data) ==
    IF data.isNull THEN OuterCatch(r, "config: " \o data.cause)
    ELSE ToCollections([r EXCEPT !.configData = data])

\* auto-load.ts:295-303
AfterReadConfig(r, data) ==
    IF data.isNull THEN ReturnNothingLoaded(r)
    ELSE ToCollections([r EXCEPT !.configData = data])

OrchReadConfig ==
    /\ run.pc = "readConfig"
    /\ run' = AfterReadConfig(run, configDoc)
    /\ ioLog' = Append(ioLog, LogEntry("readConfig", "", <<>>, ""))
    /\ UNCHANGED <<svars, poll, yaml, AUTO_LOAD, configDoc, sourceFiles, workspaceEnvs, store>>

\* auto-load.ts:185-196, one turn of readMultipleFiles for the collections.
KeepIfRead(results, file) == IF file.readable THEN Append(results, file) ELSE results

OrchReadCollection ==
    /\ run.pc = "readCollection"
    /\ LET src == run.configData.collections[run.ridx]
           got == KeepIfRead(run.collectionFiles, sourceFiles[src])
           r1 == [run EXCEPT !.collectionFiles = got, !.ridx = @ + 1]
       IN  /\ run' = IF run.ridx < Len(run.configData.collections) THEN r1
                     ELSE IF Len(got) = 0 THEN ToEnvironments(r1)
                     ELSE [r1 EXCEPT !.pc = "import", !.idx = 1]
           /\ ioLog' = Append(ioLog, LogEntry("read", src, <<>>, ""))
    /\ UNCHANGED <<svars, poll, yaml, AUTO_LOAD, configDoc, sourceFiles, workspaceEnvs, store>>

\* shouldSkipAutoLoad (auto-load.ts:417-430)
shouldSkipAutoLoad(switches, collectionTree) ==
    IF ~switches.Enabled THEN TRUE
    ELSE IF switches.SKIP_ON_EXISTING_DATA /\ Len(collectionTree) > 0 THEN TRUE
    ELSE FALSE

\* Mutant of NewEnvironments: the merge policy switch is not looked at.
NewEnvironmentsAlwaysMerges(current, incoming, merge) ==
    mergeArraysByProperty(current, incoming)

\* Mutant of NewEnvironments: the two lists are handed over in the wrong order.
NewEnvironmentsSwapped(current, incoming, merge) ==
    IF merge THEN mergeArraysByProperty(incoming, current) ELSE incoming

\* auto-load.ts:323-331 / :360-368: merge into, or replace, the workspace's list.
NewEnvironments(current, incoming, merge) ==
    IF merge THEN mergeArraysByProperty(current, incoming) ELSE incoming

\* auto-load.ts:310 / :346: the for-loop over the collection files moves on.
NextImport(r) ==
    IF r.idx < Len(r.collectionFiles)
    THEN [r EXCEPT !.idx = @ + 1]
    ELSE ToEnvironments(r)

\* Mutant of AppendToBatch: the new tree and plugins are put in front.
AppendToBatchPrepends(r, res, name) ==
    [r EXCEPT !.allCollectionTree = res.collectionTree \o @,
              !.allPlugins = res.plugins \o @,
              !.nextId = @ + Len(res.collectionTree),
              !.converted = Append(@, name),
              !.appended = Append(@, name)]

\* auto-load.ts:318-319
AppendToBatch(r, res, name) ==
    [r EXCEPT !.allCollectionTree = @ \o res.collectionTree,
              !.allPlugins = @ \o res.plugins,
              !.nextId = @ + Len(res.collectionTree),
              !.converted = Append(@, name),
              !.appended = Append(@, name)]

\* auto-load.ts:341
CountCollection(r, name) ==
    [r EXCEPT !.totalCollectionsLoaded = @ + 1, !.counted = Append(@, name)]

\* Mutant of OrchImport: the commit carries the incoming list, not the
\* workspace's list.
OrchImportCommitsIncoming ==
    /\ run.pc = "import"
    /\ LET file == run.collectionFiles[run.idx]
           res == processImportFile(file, AUTO_LOAD.DEFAULT_IMPORT_TYPE, run.nextId)
           r1 == AppendToBatch(run, res, file.name)
           envs == NewEnvironments(workspaceEnvs, res.environments,
                                   AUTO_LOAD.MERGE_ENVIRONMENTS)
           converting == LogEntry("convert", file.name, <<>>, "")
           committing == LogEntry("commit", file.name, res.environments, "")
       IN  IF res.threw
           THEN /\ run' = NextImport(run)
                /\ ioLog' = Append(ioLog, converting)
                /\ UNCHANGED <<workspaceEnvs, store>>
           ELSE IF Len(res.environments) = 0
           THEN /\ run' = NextImport(CountCollection(r1, file.name))
                /\ ioLog' = Append(ioLog, converting)
                /\ UNCHANGED <<workspaceEnvs, store>>
           ELSE \E outcome \in CommitOutcomes :
                /\ workspaceEnvs' = envs
                /\ ioLog' = ioLog \o <<converting, committing>>
                /\ IF outcome = "ok"
                   THEN /\ store' = [store EXCEPT !.environments = res.environments]
                        /\ run' = NextImport(CountCollection(
                                     [r1 EXCEPT !.totalEnvironmentsLoaded =
                                                    @ + Len(res.environments)],
                                     file.name))
                   ELSE /\ UNCHANGED store
                        /\ run' = NextImport(r1)
    /\ UNCHANGED <<svars, poll, yaml, AUTO_LOAD, configDoc, sourceFiles>>

\* auto-load.ts:310-346, one turn of the loop over the collection files.
OrchImport ==
    /\ run.pc = "import"
    /\ LET file == run.collectionFiles[run.idx]
           res == processImportFile(file, AUTO_LOAD.DEFAULT_IMPORT_TYPE, run.nextId)
           r1 == AppendToBatch(run, res, file.name)
           envs == NewEnvironments(workspaceEnvs, res.environments,
                                   AUTO_LOAD.MERGE_ENVIRONMENTS)
           converting == LogEntry("convert", file.name, <<>>, "")
           committing == LogEntry("commit", file.name, envs, "")
       IN  IF res.threw
           THEN /\ run' = NextImport(run)
                /\ ioLog' = Append(ioLog, converting)
                /\ UNCHANGED <<workspaceEnvs, store>>
           ELSE IF Len(res.environments) = 0
           THEN /\ run' = NextImport(CountCollection(r1, file.name))
                /\ ioLog' = Append(ioLog, converting)
                /\ UNCHANGED <<workspaceEnvs, store>>
           ELSE \E outcome \in CommitOutcomes :
                /\ workspaceEnvs' = envs
                /\ ioLog' = ioLog \o <<converting, committing>>
                /\ IF outcome = "ok"
                   THEN /\ store' = [store EXCEPT !.environments = envs]
                        /\ run' = NextImport(CountCollection(
                                     [r1 EXCEPT !.totalEnvironmentsLoaded =
                                                    @ + Len(res.environments)],
                                     file.name))
                   ELSE /\ UNCHANGED store
                        /\ run' = NextImport(r1)
    /\ UNCHANGED <<svars, poll, yaml, AUTO_LOAD, configDoc, sourceFiles>>

\* auto-load.ts:185-196, one turn of readMultipleFiles for the environments.
OrchReadEnvironment ==
    /\ run.pc = "readEnvironment"
    /\ LET src == run.configData.environments[run.ridx]
           got == KeepIfRead(run.environmentFiles, sourceFiles[src])
           r1 == [run EXCEPT !.environmentFiles = got, !.ridx = @ + 1]
       IN  /\ run' = IF run.ridx < Len(run.configData.environments) THEN r1
                     ELSE IF Len(got) = 0 THEN [r1 EXCEPT !.pc = "dispatch"]
                     ELSE [r1 EXCEPT !.pc = "environment", !.idx = 1]
           /\ ioLog' = Append(ioLog, LogEntry("read", src, <<>>, ""))
    /\ UNCHANGED <<svars, poll, yaml, AUTO_LOAD, configDoc, sourceFiles, workspaceEnvs, store>>

\* auto-load.ts:356-358
CoerceToArray(file) == IF file.isArray THEN file.items ELSE <<file.single>>

\* auto-load.ts:354 / :380
NextEnvironment(r) ==
    IF r.idx < Len(r.environmentFiles)
    THEN [r EXCEPT !.idx = @ + 1]
    ELSE [r EXCEPT !.pc = "dispatch"]

\* auto-load.ts:354-380, one turn of the loop over the environment files.
OrchEnvironment ==
    /\ run.pc = "environment"
    /\ LET file == run.environmentFiles[run.idx]
           incoming == CoerceToArray(file)
           envs == NewEnvironments(workspaceEnvs, incoming, AUTO_LOAD.MERGE_ENVIRONMENTS)
       IN  \E outcome \in CommitOutcomes :
             /\ workspaceEnvs' = envs
             /\ ioLog' = Append(ioLog, LogEntry("commit", file.name, envs, ""))
             /\ IF outcome = "ok"
                THEN /\ store' = [store EXCEPT !.environments = envs]
                     /\ run' = NextEnvironment(
                                  [run EXCEPT !.totalEnvironmentsLoaded =
                                                  @ + Len(incoming)])
                ELSE /\ UNCHANGED store
                     /\ run' = NextEnvironment(run)
    /\ UNCHANGED <<svars, poll, yaml, AUTO_LOAD, configDoc, sourceFiles>>

\* Mutant of AfterDispatch: the error the store reports is not looked at.
AfterDispatchIgnoringError(r, outcome) ==
    IF outcome.kind # "throws" THEN ReturnCounts(r) ELSE OuterCatch(r, outcome.message)

\* auto-load.ts:385-393: what the run makes of the answer of the dispatch.
AfterDispatch(r, outcome) ==
    IF outcome.kind = "ok" THEN ReturnCounts(r) ELSE OuterCatch(r, outcome.message)

\* auto-load.ts:383-402
OrchDispatch ==
    /\ run.pc = "dispatch"
    /\ IF Len(run.allCollectionTree) > 0
       THEN \E outcome \in DispatchOutcomes :
              /\ run' = AfterDispatch(run, outcome)
              /\ ioLog' = Append(ioLog, LogEntry("dispatch", outcome.kind,
                                                <<run.allCollectionTree, run.allPlugins>>,
                                                outcome.message))
              /\ store' = IF outcome.kind = "ok"
                          THEN [store EXCEPT !.collectionTree = @ \o run.allCollectionTree,
                                             !.plugins = @ \o run.allPlugins]
                          ELSE store
       ELSE /\ run' = ReturnCounts(run)
            /\ UNCHANGED <<ioLog, store>>
    /\ UNCHANGED <<svars, poll, yaml, AUTO_LOAD, configDoc, sourceFiles, workspaceEnvs>>

(***************************************************************************)
(* The inputs of a run                                                     *)
(***************************************************************************)
CollectionSources == {"c1.json", "c2.json"}
EnvironmentSources == {"e1.json"}

CollectionFiles(name) ==
    {NoFile,
     MalformedFile(name),
     CollectionFile(name, <<Node(1, 0), Node(2, 1)>>, <<Plugin(1), Plugin(7)>>,
                    <<Env("A", IF name = "c1.json" THEN 9 ELSE 8), Env("C", 3)>>),
     [CollectionFile(name, <<Node(1, 0)>>, <<Plugin(1)>>, <<>>)
        EXCEPT !.postmanV1 = TRUE]}

EnvironmentFiles(name) ==
    {NoFile,
     EnvArrayFile(name, <<Env("B", 7), Env("D", 4)>>),
     EnvObjectFile(name, Env("A", 5))}

ConfigDatas ==
    {NoConfigData,
     InvalidConfigData,
     ConfigData(<<"c1.json", "c2.json">>, <<"e1.json">>),
     ConfigData(<<"c2.json">>, <<>>),
     ConfigData(<<>>, <<"e1.json">>)}

InitialEnvironments == <<Env("A", 1), Env("B", 2)>>

Switches ==
    [Enabled : BOOLEAN, SKIP_ON_EXISTING_DATA : BOOLEAN, MERGE_ENVIRONMENTS : BOOLEAN,
     DEFAULT_IMPORT_TYPE : ImportTypes]

IdleStore ==
    [environments |-> InitialEnvironments, collectionTree |-> <<>>, plugins |-> <<>>]

\* The collection tree the workspace holds before the run.
ExistingTrees == {<<>>, <<Node(50, 0)>>}

InitOrchIdle ==
    /\ AUTO_LOAD = [Enabled |-> FALSE, SKIP_ON_EXISTING_DATA |-> TRUE,
                    MERGE_ENVIRONMENTS |-> TRUE, DEFAULT_IMPORT_TYPE |-> "Restfox"]
    /\ configDoc = NoConfigData
    /\ sourceFiles = [s \in CollectionSources \cup EnvironmentSources |-> NoFile]
    /\ workspaceEnvs = InitialEnvironments
    /\ store = IdleStore
    /\ run = [IdleRun EXCEPT !.pc = "idle"]
    /\ ioLog = <<>>
    /\ poll = IdlePoll
    /\ yaml = IdleYaml

(***************************************************************************)
(* The delegated topology: the run waits for the Readiness Service         *)
(***************************************************************************)
\* The bound of the readiness poll: 30 attempts, 2 seconds apart.
pollMaxAttempts == 30

\* Mutant of AfterPoll: the poll goes on after the 30th attempt.
AfterPollOffByOne(p, status) ==
    LET a == p.attempts + 1
    IN  IF status.initialized
        THEN [p EXCEPT !.attempts = a, !.initialized = TRUE, !.pc = "config"]
        ELSE IF a <= pollMaxAttempts
             THEN [p EXCEPT !.attempts = a, !.pc = "waiting"]
             ELSE [p EXCEPT !.attempts = a, !.pc = "timedOut"]

\* One status poll is answered: initialized ends the wait, otherwise the run
\* waits and polls again unless the attempts are used up.
AfterPoll(p, status) ==
    LET a == p.attempts + 1
    IN  IF status.initialized
        THEN [p EXCEPT !.attempts = a, !.initialized = TRUE, !.pc = "config"]
        ELSE IF a < pollMaxAttempts
             THEN [p EXCEPT !.attempts = a, !.pc = "waiting"]
             ELSE [p EXCEPT !.attempts = a, !.pc = "timedOut"]

\* GET /api/auto-load/status is polled; on exhaustion the run fails with
\* ReadinessTimeout.
DelegatedPoll ==
    /\ poll.pc = "polling"
    /\ poll' = AfterPoll(poll, StatusReply)
    /\ run' = IF poll'.pc = "timedOut" THEN OuterCatch(run, "ReadinessTimeout") ELSE run
    /\ UNCHANGED <<svars, yaml, AUTO_LOAD, configDoc, sourceFiles, workspaceEnvs, store, ioLog>>

\* The fixed delay between two polls is over.
DelegatedWait ==
    /\ poll.pc = "waiting"
    /\ poll' = [poll EXCEPT !.pc = "polling", !.waits = @ + 1]
    /\ UNCHANGED <<svars, yaml, AUTO_LOAD, configDoc, sourceFiles, workspaceEnvs, store, run,
                   ioLog>>

\* The config document is fetched from the service (app.js:23, the static
\* files of public/).
DelegatedFetchConfig ==
    /\ poll.pc = "config"
    /\ poll' = [poll EXCEPT !.pc = "objects", !.config = cfgFile]
    /\ ioLog' = Append(ioLog, LogEntry("http", "config", <<>>, ""))
    /\ UNCHANGED <<svars, yaml, AUTO_LOAD, configDoc, sourceFiles, workspaceEnvs, store, run>>

\* The data is fetched from GET /api/auto-load/objects: the request is sent ...
DelegatedObjectsStep ==
    /\ poll.pc = "objects"
    /\ \/ query.pc = "idle" /\ QueryStart
       \/ QueryReadManifest
       \/ QueryReadBlob

\* ... and its answer has arrived.
DelegatedGotObjects ==
    /\ poll.pc = "objects"
    /\ query.pc = "done"
    /\ poll' = [poll EXCEPT !.pc = "fetched"]
    /\ ioLog' = Append(ioLog, LogEntry("http", "objects", <<>>, query.reply))
    /\ UNCHANGED <<svars, yaml, AUTO_LOAD, configDoc, sourceFiles, workspaceEnvs, store, run>>

(***************************************************************************)
(* parseSimpleYaml (auto-load.ts:80-116), the fallback of readConfigFile   *)
(***************************************************************************)
\* The lines yamlString.split('\n') can give: an empty line, a comment, the
\* two section headers, another top-level key, two list items (one quoted).
LineTexts ==
    {"", "# note", "collections:", "environments:", "other:",
     "  - a.json", "  - 'b.json'"}

\* line.trim()
Trim(line) ==
    CASE line = "  - a.json" -> "- a.json"
      [] line = "  - 'b.json'" -> "- 'b.json'"
      [] OTHER -> line

\* trimmed.startsWith('#') and trimmed.startsWith('- ')
StartsWithHash(trimmed) == trimmed = "# note"
StartsWithDash(trimmed) == trimmed \in {"- a.json", "- 'b.json'"}

\* auto-load.ts:108-110: trimmed.substring(2).trim(), then the quotes at both
\* ends are removed.
Substring2Trim(trimmed) ==
    CASE trimmed = "- a.json" -> "a.json"
      [] trimmed = "- 'b.json'" -> "'b.json'"
StripQuotes(item) == IF item = "'b.json'" THEN "b.json" ELSE item
CleanItem(trimmed) == StripQuotes(Substring2Trim(trimmed))

\* auto-load.ts:85-113: one turn of the loop over the lines.
ParseLine(y, line, k) ==
    LET trimmed == Trim(line)
    IN  IF trimmed = "" \/ StartsWithHash(trimmed) THEN y
        ELSE IF trimmed = "collections:"
        THEN [y EXCEPT !.currentSection = "collections",
                       !.result.hasCollections = TRUE, !.result.collections = <<>>,
                       !.fromC = <<>>]
        ELSE IF trimmed = "environments:"
        THEN [y EXCEPT !.currentSection = "environments",
                       !.result.hasEnvironments = TRUE, !.result.environments = <<>>,
                       !.fromE = <<>>]
        ELSE IF StartsWithDash(trimmed) /\ y.currentSection # ""
        THEN IF y.currentSection = "collections"
             THEN [y EXCEPT !.result.collections = Append(@, CleanItem(trimmed)),
                            !.fromC = Append(@, k)]
             ELSE [y EXCEPT !.result.environments = Append(@, CleanItem(trimmed)),
                            !.fromE = Append(@, k)]
        ELSE y

\* auto-load.ts:85 / :115: the loop takes the next line, or the function
\* returns its result.
YamlLine ==
    /\ yaml.pc = "parsing"
    /\ LET y == ParseLine(yaml, yaml.lines[yaml.idx], yaml.idx)
       IN  yaml' = IF yaml.idx < Len(yaml.lines)
                   THEN [y EXCEPT !.idx = @ + 1]
                   ELSE [y EXCEPT !.pc = "done"]
    /\ UNCHANGED <<svars, poll, AUTO_LOAD, configDoc, sourceFiles, workspaceEnvs, store,
                   run, ioLog>>

(***************************************************************************)
(* Specifications                                                          *)
(***************************************************************************)
\* app.js:21: initializeAutoLoad() is called while the module loads; the cache
\* directory is empty.
InitService ==
    /\ cfgFile \in ConfigDocs
    /\ remote = InitRemote
    /\ diskOk = TRUE
    /\ changes = 0
    /\ autoLoadedObjects = NoResult
    /\ holder = -1
    /\ blobs = [k \in BlobKeys |-> AbsentFile]
    /\ manifest = AbsentManifest
    /\ cyc = [c \in Cycles |-> IF c = StartupCycle
                               THEN [IdleCycle EXCEPT !.pc = "config"]
                               ELSE IdleCycle]
    /\ reloadReply = [c \in Cycles |-> "none"]
    /\ query = IdleQuery
    /\ InitOrchIdle

CycleStep(c) ==
    \/ CycleReadConfig(c)
    \/ CycleFetch(c)
    \/ CycleWait(c)
    \/ CycleReadBody(c)
    \/ CacheMkdir(c)
    \/ CacheWriteOpen(c)
    \/ CacheWriteDone(c)
    \/ CacheManifestOpen(c)
    \/ CacheManifestDone(c)
    \/ CycleReturn(c)

WorldStep ==
    \/ \E p \in Paths, text \in BodyTexts : ChangeRemote(p, text)
    \/ \E doc \in ConfigDocs : ChangeConfig(doc)
    \/ ChangeDisk

\* The service: the startup load, reload commands and queries, while at most
\* MaxFailures fetches fail.
Init == InitService /\ failLeft = MaxFailures

Next ==
    \/ \E c \in Cycles : CycleStep(c)
    \/ \E c \in Cycles : Reload(c)
    \/ StatusQuery
    \/ QueryStart
    \/ QueryReadManifest
    \/ QueryReadBlob
    \/ WorldStep

Spec == Init /\ [][Next]_vars

\* One load cycle on its own, with any number of failing fetches.
InitCycle == InitService /\ failLeft = -1

NextCycle ==
    \/ CycleStep(StartupCycle)
    \/ WorldStep

SpecCycle == InitCycle /\ [][NextCycle]_vars

SpecCycleFair == SpecCycle /\ WF_vars(CycleStep(StartupCycle))

\* One run of autoLoadData, for every setting of the switches, every config
\* and every content of the sources; the cache service stands still.
InitOrch ==
    /\ cfgFile = CfgMissing
    /\ remote = InitRemote
    /\ diskOk = TRUE
    /\ changes = 0
    /\ failLeft = 0
    /\ autoLoadedObjects = NoResult
    /\ holder = -1
    /\ blobs = [k \in BlobKeys |-> AbsentFile]
    /\ manifest = AbsentManifest
    /\ cyc = [c \in Cycles |-> IdleCycle]
    /\ reloadReply = [c \in Cycles |-> "none"]
    /\ query = IdleQuery
    /\ AUTO_LOAD \in Switches
    /\ configDoc \in ConfigDatas
    /\ \E f1 \in CollectionFiles("c1.json"), f2 \in CollectionFiles("c2.json"),
          e1 \in EnvironmentFiles("e1.json") :
          sourceFiles = [s \in CollectionSources \cup EnvironmentSources |->
                            IF s = "c1.json" THEN f1
                            ELSE IF s = "c2.json" THEN f2 ELSE e1]
    /\ workspaceEnvs = InitialEnvironments
    /\ \E tree \in ExistingTrees : store = [IdleStore EXCEPT !.collectionTree = tree]
    /\ run = IdleRun
    /\ ioLog = <<>>
    /\ poll = IdlePoll
    /\ yaml = IdleYaml

NextOrch ==
    \/ OrchStart
    \/ OrchReadConfig
    \/ OrchReadCollection
    \/ OrchImport
    \/ OrchReadEnvironment
    \/ OrchEnvironment
    \/ OrchDispatch

SpecOrch == InitOrch /\ [][NextOrch]_vars

\* A run in the delegated topology beside the startup load of the service,
\* of which at most MaxFailures fetches fail: the polls fall anywhere between
\* the steps of the load.
InitDelegated ==
    /\ cfgFile \in ConfigDocs
    /\ remote = InitRemote
    /\ diskOk \in BOOLEAN
    /\ changes = 0
    /\ failLeft = MaxFailures
    /\ autoLoadedObjects = NoResult
    /\ holder = -1
    /\ blobs = [k \in BlobKeys |-> AbsentFile]
    /\ manifest = AbsentManifest
    /\ cyc = [c \in Cycles |-> IF c = StartupCycle
                               THEN [IdleCycle EXCEPT !.pc = "config"]
                               ELSE IdleCycle]
    /\ reloadReply = [c \in Cycles |-> "none"]
    /\ query = IdleQuery
    /\ AUTO_LOAD \in {sw \in Switches : sw.Enabled /\ sw.DEFAULT_IMPORT_TYPE = "Restfox"}
    /\ configDoc = NoConfigData
    /\ sourceFiles = [s \in CollectionSources \cup EnvironmentSources |-> NoFile]
    /\ workspaceEnvs = InitialEnvironments
    /\ store = IdleStore
    /\ run = [IdleRun EXCEPT !.pc = "idle"]
    /\ ioLog = <<>>
    /\ poll = [IdlePoll EXCEPT !.pc = "polling"]
    /\ yaml = IdleYaml

NextDelegated ==
    \/ CycleStep(StartupCycle)
    \/ DelegatedPoll
    \/ DelegatedWait
    \/ DelegatedFetchConfig
    \/ DelegatedObjectsStep
    \/ DelegatedGotObjects

SpecDelegated == InitDelegated /\ [][NextDelegated]_vars

\* One call of parseSimpleYaml, for every document of up to MaxLines lines;
\* everything else stands still.
YamlDocuments ==
    UNION {[1 .. n -> LineTexts] : n \in 1 .. MaxLines}

InitYaml ==
    /\ cfgFile = CfgMissing
    /\ remote = InitRemote
    /\ diskOk = TRUE
    /\ changes = 0
    /\ failLeft = 0
    /\ autoLoadedObjects = NoResult
    /\ holder = -1
    /\ blobs = [k \in BlobKeys |-> AbsentFile]
    /\ manifest = AbsentManifest
    /\ cyc = [c \in Cycles |-> IdleCycle]
    /\ reloadReply = [c \in Cycles |-> "none"]
    /\ query = IdleQuery
    /\ AUTO_LOAD = [Enabled |-> TRUE, SKIP_ON_EXISTING_DATA |-> TRUE,
                    MERGE_ENVIRONMENTS |-> TRUE, DEFAULT_IMPORT_TYPE |-> "Restfox"]
    /\ configDoc = NoConfigData
    /\ sourceFiles = [s \in CollectionSources \cup EnvironmentSources |-> NoFile]
    /\ workspaceEnvs = InitialEnvironments
    /\ store = IdleStore
    /\ run = [IdleRun EXCEPT !.pc = "idle"]
    /\ ioLog = <<>>
    /\ poll = IdlePoll
    /\ \E doc \in YamlDocuments :
          yaml = [IdleYaml EXCEPT !.pc = "parsing", !.lines = doc, !.idx = 1]

NextYaml == YamlLine

SpecYaml == InitYaml /\ [][NextYaml]_vars

(***************************************************************************)
(* Claims about the cache service                                          *)
(***************************************************************************)
Startup == cyc[StartupCycle]
Reloads == Cycles \ {StartupCycle}
NoReloadReturned == \A c \in Reloads : cyc[c].pc # "done"
Entries(objects) ==
    [collections |-> objects.collections, environments |-> objects.environments]
\* What the objects query sent: the entries of its payload, none with a 404.
Payload == IF query.reply = "200" THEN Entries(query.result) ELSE Entries(NoResult)

\* C1 as stated: the status query reports initialized=false as long as the
\* startup load has not completed and initialized=true once it has, whatever
\* the outcome of that load.
C1_StatusFollowsStartup ==
    StatusReply.initialized <=> Startup.pc = "done"

\* C1 amended: as long as no reload command has returned, the status query
\* reports initialized=false before the startup load has completed, and after
\* it has completed it reports initialized=true exactly when that load read a
\* config document that parses to an object, whatever its fetches and its
\* cache write did.
C1_StatusFollowsStartupConfig ==
    NoReloadReturned =>
        (StatusReply.initialized <=> (Startup.pc = "done" /\ Startup.config.isObject))

\* C1 witness: the startup load has completed with a readable config of which
\* a source was skipped, and status reports initialized.
C1_Witness ==
    /\ NoReloadReturned
    /\ Startup.pc = "done"
    /\ Startup.config.isObject
    /\ Len(Startup.result.collections) < Len(Startup.config.collections)
    /\ StatusReply.initialized

\* C2 as stated: from an empty cache directory the objects query answers 404
\* unless a manifest write has succeeded before it read the manifest, and then
\* it answers with the full payload of the cycle that wrote the manifest.
C2_ObjectsAnswerCycle ==
    query.pc = "done" =>
        IF query.man.state = "ok"
        THEN query.reply = "200" /\ Payload = Entries(cyc[query.man.by].result)
        ELSE query.reply = "404"

\* C3 as stated: an objects query made after a reload command has returned,
\* with no cycle running, sends the entries of that reload's cycle and nothing
\* else.
C3_ReloadReplaces ==
    (/\ query.pc = "done"
     /\ query.quiet
     /\ query.since \in Reloads
     /\ holder = query.since)
    => Payload = Entries(cyc[query.since].result)

DistinctNames(entries) ==
    \A i, j \in 1 .. Len(entries) : entries[i].name = entries[j].name => i = j

\* C4 as stated: an objects query that arrives after the startup cycle has
\* returned and that finds a manifest sends exactly the complete payload of
\* one cycle, also when a reload runs beside it (stated for cycles whose
\* sources have distinct names).
C4_ReadersSeeOneCycle ==
    (/\ query.pc = "done"
     /\ query.since = StartupCycle
     /\ query.man.state = "ok"
     /\ \A c \in Cycles : DistinctNames(cyc[c].result.collections)
                          /\ DistinctNames(cyc[c].result.environments))
    => /\ query.reply = "200"
       /\ \E c \in Cycles : ~cyc[c].result.isNull /\ Payload = Entries(cyc[c].result)

\* C5: in one load cycle a source is fetched at most 60 times, a wait lies
\* between consecutive fetches of a source and none follows its last fetch, no
\* fetch follows an ok answer, and the cycle ends.
C5_LoopShape ==
    /\ Startup.nFetch <= maxAttempts
    /\ Startup.pc = "fetching" => Startup.nWait = Startup.nFetch /\ ~Startup.gotOk
    /\ Startup.pc = "waiting" =>
          /\ Startup.nWait = Startup.nFetch - 1
          /\ Startup.nFetch < maxAttempts
          /\ ~Startup.gotOk
    /\ Startup.pc = "reading" => Startup.nWait = Startup.nFetch - 1

C5_RetryBoundedAndEnds == [] C5_LoopShape /\ <>(Startup.pc = "done")

\* C5 witness: the 60th fetch of a source is about to be answered.
C5_Witness ==
    /\ Startup.pc = "fetching"
    /\ Startup.nFetch = maxAttempts - 1
    /\ Startup.nWait = maxAttempts - 1

\* C6: the result of a load cycle holds, in config order, exactly the sources
\* of which a fetch of this cycle was answered ok with a JSON body; a source
\* whose attempts all failed is in neither the result nor the manifest.
C6_FailedSourceSkipped ==
    /\ (Startup.pc \in {"mkdir", "writing", "manifest", "returning", "done"}
        /\ Startup.config.isObject)
       => /\ Startup.result.collections = Startup.wantC
          /\ Startup.result.environments = Startup.wantE
    /\ manifest.state = "ok"
       => /\ manifest.collections = NamesOf(Startup.wantC)
          /\ manifest.environments = NamesOf(Startup.wantE)

\* C6 witness: a cycle has ended in which a source used up its 60 attempts
\* and a source listed after it was loaded and cached.
C6_Witness ==
    /\ Startup.pc = "done"
    /\ Startup.nExhausted = 1
    /\ Startup.config.collections = <<PathAX, PathBX>>
    /\ Startup.result.collections = <<[name |-> "x.json", content |-> [v |-> 2]]>>
    /\ manifest.state = "ok"
    /\ manifest.collections = <<"x.json">>

(***************************************************************************)
(* Claims about autoLoadData                                               *)
(***************************************************************************)
Ret == run.ret
LastLog == ioLog[Len(ioLog)]
DispatchFailed ==
    Len(ioLog) > 0 /\ LastLog.op = "dispatch" /\ LastLog.what # "ok"
Listed(src) ==
    \E i \in 1 .. Len(run.configData.collections) : run.configData.collections[i] = src
NoIO ==
    /\ ioLog = <<>>
    /\ workspaceEnvs = InitialEnvironments
    /\ store.environments = InitialEnvironments
    /\ store.plugins = <<>>
    /\ store.collectionTree \in ExistingTrees

\* C7 as stated: in a run with a resolved config whose final batch the store
\* does not refuse, unreadable and unconvertible collection sources are
\* skipped, the result has success=true, and collectionsLoaded is the number
\* of collection sources that were read and converted without error.
C7_PartialSuccessCounts ==
    (run.pc = "done" /\ ~run.configData.isNull /\ ~DispatchFailed)
    => /\ Ret.success
       /\ Ret.collectionsLoaded = Len(run.converted)

\* C8: a run never ends by an exception: it returns a structured result, and
\* success=false is returned only when the dispatch of the final batch failed.
C8_AlwaysStructuredResult ==
    /\ run.pc # "threw"
    /\ run.pc = "done" => Ret.returned
    /\ (run.pc = "done" /\ ~Ret.success)
       => /\ DispatchFailed
          /\ Ret.error = LastLog.note
          /\ Ret.collectionsLoaded = 0 /\ Ret.environmentsLoaded = 0

\* C8 witness: a run has returned success=true although a listed collection
\* source was unreadable, another was malformed and a commit threw.
C8_Witness ==
    /\ run.pc = "done"
    /\ Ret.success
    /\ ~sourceFiles["c1.json"].readable /\ Listed("c1.json")
    /\ sourceFiles["c2.json"].malformed /\ Listed("c2.json")
    /\ Len(ioLog) > 0 /\ LastLog.op = "commit"
    /\ store.environments # LastLog.payload

\* C9: when the dispatch of 'setCollectionTree' reports an error, the run
\* returns success=false with the message the store reported.
C9_DispatchErrorFails ==
    (run.pc = "done" /\ Len(ioLog) > 0 /\ LastLog.op = "dispatch"
     /\ LastLog.what = "error")
    => /\ ~Ret.success
       /\ Ret.error = LastLog.note

\* C9 witness: a run has ended on a dispatch that reported "tree rejected".
C9_Witness ==
    /\ run.pc = "done"
    /\ Len(ioLog) > 0 /\ LastLog.op = "dispatch" /\ LastLog.what = "error"
    /\ Ret.error = "tree rejected"

\* C10: with auto-load turned off the run returns {success:true, 0, 0} and has
\* read, committed and dispatched nothing; shouldSkipAutoLoad answers true.
C10_DisabledDoesNothing ==
    ~AUTO_LOAD.Enabled
    => /\ run.pc \in {"start", "done"}
       /\ run.pc = "done" => Ret = Result(TRUE, "", 0, 0)
       /\ NoIO
       /\ shouldSkipAutoLoad(AUTO_LOAD, store.collectionTree)

\* C10 witness: a run with auto-load turned off has returned.
C10_Witness ==
    /\ ~AUTO_LOAD.Enabled
    /\ ~configDoc.isNull
    /\ run.pc = "done"
    /\ Ret.returned

\* The workspace held a collection tree when the run began (a dispatch only
\* appends to it).
HadTree ==
    /\ Len(store.collectionTree) > 0
    /\ \E t \in ExistingTrees : Len(t) > 0 /\ store.collectionTree[1] = t[1]

\* C11 as stated: with SKIP_ON_EXISTING_DATA on and a workspace that already
\* holds a collection tree, the run reads nothing and returns
\* {success:true, 0, 0}.
C11_SkipOnExistingData ==
    (AUTO_LOAD.SKIP_ON_EXISTING_DATA /\ HadTree)
    => /\ ioLog = <<>>
       /\ run.pc = "done" => Ret = Result(TRUE, "", 0, 0)

\* C12 as stated: a run whose config cannot be resolved ends with
\* success=false and an error message.
C12_ConfigFailureFails ==
    (AUTO_LOAD.Enabled /\ configDoc.isNull /\ run.pc = "done")
    => ~Ret.success /\ Ret.error # ""

\* C12 amended: a run whose config cannot be resolved (unreadable, or not an
\* object) reads the config once and nothing else, commits and dispatches
\* nothing, and returns {success:true, 0, 0} without an error message.
C12_ConfigFailureSkipsRun ==
    (AUTO_LOAD.Enabled /\ configDoc.isNull /\ run.pc \notin {"start", "readConfig"})
    => /\ run.pc = "done"
       /\ Ret = Result(TRUE, "", 0, 0)
       /\ ioLog = <<LogEntry("readConfig", "", <<>>, "")>>
       /\ workspaceEnvs = InitialEnvironments
       /\ store.environments = InitialEnvironments
       /\ store.plugins = <<>>
       /\ store.collectionTree \in ExistingTrees

\* C12 witness: a run has ended on a config document that is no object.
C12_Witness ==
    /\ AUTO_LOAD.Enabled
    /\ configDoc = InvalidConfigData
    /\ run.pc = "done"
    /\ Len(ioLog) = 1

\* The environment list a source brings: the embedded environments of a
\* native export that converts, the entity list of an environment file.
NamesIn(list) == {list[i].name : i \in 1 .. Len(list)}
EntryOf(list, n) == list[CHOOSE i \in 1 .. Len(list) : list[i].name = n]
EmbeddedEnvironments(file) ==
    IF AUTO_LOAD.DEFAULT_IMPORT_TYPE = "Restfox" /\ ~file.malformed
    THEN file.environments ELSE <<>>
EntityList(file) == IF file.isArray THEN file.items ELSE <<file.single>>
\* The list of the source the run is about to process.
Incoming ==
    IF run.pc = "import" THEN EmbeddedEnvironments(run.collectionFiles[run.idx])
    ELSE IF run.pc = "environment" THEN EntityList(run.environmentFiles[run.idx])
    ELSE <<>>
\* The lists of all sources the run processes, in the order it processes them.
EnvLists ==
    [i \in 1 .. Len(run.collectionFiles) |-> EmbeddedEnvironments(run.collectionFiles[i])]
    \o [i \in 1 .. Len(run.environmentFiles) |-> EntityList(run.environmentFiles[i])]
LastWith(lists, n) ==
    CHOOSE k \in 1 .. Len(lists) :
        /\ n \in NamesIn(lists[k])
        /\ \A j \in k + 1 .. Len(lists) : n \notin NamesIn(lists[j])

\* new is old merged with inc by name: matching entries replaced in place,
\* the others kept, new names appended in the order of inc.
IsMergeByName(old, inc, new) ==
    LET IsNew(e) == e.name \notin NamesIn(old)
    IN  /\ Len(new) = Len(old) + Len(SelectSeq(inc, IsNew))
        /\ \A i \in 1 .. Len(old) :
              new[i] = IF old[i].name \in NamesIn(inc)
                       THEN EntryOf(inc, old[i].name) ELSE old[i]
        /\ SubSeq(new, Len(old) + 1, Len(new)) = SelectSeq(inc, IsNew)

C13_MergeStep ==
    (AUTO_LOAD.MERGE_ENVIRONMENTS /\ Len(Incoming) > 0)
    => IsMergeByName(workspaceEnvs, Incoming, workspaceEnvs')

C13_LastSourceWins ==
    (AUTO_LOAD.MERGE_ENVIRONMENTS /\ run.pc = "done" /\ ~run.configData.isNull)
    => /\ \A n \in NamesIn(workspaceEnvs) :
            EntryOf(workspaceEnvs, n) =
                IF \E k \in 1 .. Len(EnvLists) : n \in NamesIn(EnvLists[k])
                THEN EntryOf(EnvLists[LastWith(EnvLists, n)], n)
                ELSE EntryOf(InitialEnvironments, n)
       /\ \A k \in 1 .. Len(EnvLists) : NamesIn(EnvLists[k]) \subseteq NamesIn(workspaceEnvs)
       /\ NamesIn(InitialEnvironments) \subseteq NamesIn(workspaceEnvs)

\* C13: with MERGE_ENVIRONMENTS on, every source's list is merged by name into
\* the workspace's list (a known name replaced in place, a new name appended,
\* the rest kept in order), and at the end of the run each name carries the
\* entry of the last processed source that has it.
C13_MergeByName ==
    /\ [][C13_MergeStep]_vars
    /\ []C13_LastSourceWins

\* C13 witness: a merging run has ended in which A came from two collection
\* sources and last from the environment file, B was kept, C was appended.
C13_Witness ==
    /\ AUTO_LOAD.MERGE_ENVIRONMENTS
    /\ run.pc = "done"
    /\ Len(EnvLists) = 3
    /\ Len(EnvLists[1]) > 0 /\ Len(EnvLists[2]) > 0
    /\ workspaceEnvs = <<Env("A", 5), Env("B", 2), Env("C", 3)>>

UnsupportedType ==
    AUTO_LOAD.DEFAULT_IMPORT_TYPE \notin {"Postman", "Insomnia", "Restfox", "OpenAPI"}
ReadsLogged == Len(SelectSeq(ioLog, LAMBDA e : e.op = "read"))
DispatchesLogged == Len(SelectSeq(ioLog, LAMBDA e : e.op = "dispatch"))

\* C14: with an import type outside the supported set processImportFile
\* returns an empty tree, no plugins and no environments for every source and
\* does not throw; the run goes on through all its sources, and nothing of a
\* collection source reaches a dispatch.
C14_UnsupportedTypeAddsNothing ==
    UnsupportedType
    => /\ run.pc = "import"
          => processImportFile(run.collectionFiles[run.idx],
                               AUTO_LOAD.DEFAULT_IMPORT_TYPE, run.nextId)
             = [threw |-> FALSE, collectionTree |-> <<>>, plugins |-> <<>>,
                environments |-> <<>>]
       /\ run.allCollectionTree = <<>>
       /\ run.allPlugins = <<>>
       /\ DispatchesLogged = 0
       /\ store.collectionTree \in ExistingTrees /\ store.plugins = <<>>
       /\ (run.pc = "done" /\ ~run.configData.isNull)
          => /\ Ret.success
             /\ ReadsLogged = Len(run.configData.collections)
                              + Len(run.configData.environments)
             /\ Len(run.converted) = Len(run.collectionFiles)

\* C14 witness: a run with an unsupported import type has ended after two
\* readable collection exports and an environment file.
C14_Witness ==
    /\ UnsupportedType
    /\ run.pc = "done"
    /\ Len(run.collectionFiles) = 2
    /\ \A i \in 1 .. 2 : Len(run.collectionFiles[i].tree) > 0
    /\ Len(run.environmentFiles) = 1
    /\ Ret.environmentsLoaded > 0

(***************************************************************************)
(* Further claims about the cache service                                  *)
(***************************************************************************)
\* C15 as stated: a reload command answers {success:true} when its cycle
\* completed and HTTP 500 when the cycle failed (here: when the config document
\* could not be read or parsed, so that the cycle returned null).
C15_ReloadReportsOutcome ==
    \A c \in Reloads :
        cyc[c].pc = "done"
        => reloadReply[c] = IF cyc[c].result.isNull THEN "500" ELSE "success"

\* The objects query took a step of its own (arrived, read the manifest, read
\* a blob, answered).
QueryMoved ==
    <<query.pc, query.idx, query.man, query.result, query.reply>>'
        # <<query.pc, query.idx, query.man, query.result, query.reply>>
ReloadArrived(c) == reloadReply[c] = "none" /\ cyc[c].pc = "idle" /\ cyc'[c].pc = "config"

C17_QueriesOnlyRead ==
    /\ QueryMoved => UNCHANGED <<autoLoadedObjects, holder, blobs, manifest, cyc>>
    /\ \A c \in Cycles :
          (cyc[c].pc = "idle" /\ cyc'[c].pc # "idle")
          => c \in Reloads /\ ReloadArrived(c) /\ ~QueryMoved
    /\ \A c \in Cycles :
          (cyc[c].pc # "fetching" /\ cyc'[c].pc = "fetching")
          => cyc[c].pc \in {"config", "waiting", "reading"} /\ ~QueryMoved

C17_QueriesNeverBlocked ==
    /\ cyc[StartupCycle].pc # "idle"
    /\ StatusReply.initialized \in BOOLEAN
    /\ query.pc \in {"idle", "done"} => ENABLED QueryStart
    /\ query.pc = "manifest" => ENABLED QueryReadManifest
    /\ query.pc = "blobs" => ENABLED QueryReadBlob

\* C17: a fetch-and-cache cycle begins only at process start and on a reload
\* command; a step of the status or of the objects query starts no cycle and
\* no fetch and leaves autoLoadedObjects, the manifest and every blob as they
\* are; and the queries can always go on, also while a reload is running.
C17_OnlyStartAndReloadLoad ==
    /\ [][C17_QueriesOnlyRead]_vars
    /\ []C17_QueriesNeverBlocked

\* C17 witness: an objects query was answered 200 while a reload was running
\* (the startup load had returned before the query arrived).
C17_Witness ==
    /\ \E c \in Reloads : InFlight(c)
    /\ query.pc = "done"
    /\ query.reply = "200"
    /\ query.since = StartupCycle
    /\ ~query.quiet
    /\ StatusReply.initialized

(***************************************************************************)
(* Further claims about autoLoadData                                       *)
(***************************************************************************)
\* The batch the sources of the run make up: the converted trees and plugins
\* of the collection files, in the order they were read, leaving out the
\* files no converter accepts.
RECURSIVE ExpectedBatch(_, _)
ExpectedBatch(fs, acc) ==
    IF Len(fs) = 0 THEN acc
    ELSE LET res == processImportFile(Head(fs), AUTO_LOAD.DEFAULT_IMPORT_TYPE,
                                      Len(acc[1]))
         IN  ExpectedBatch(Tail(fs),
                           IF res.threw THEN acc
                           ELSE <<acc[1] \o res.collectionTree, acc[2] \o res.plugins>>)

\* C18: the batch is dispatched at most once, exactly once by the end of a run
\* whose accumulated tree is non-empty and never when it is empty; nothing is
\* read or committed after the dispatch; the payload is the concatenation, in
\* source order, of the trees and plugins of the sources that converted.
C18_OneDispatchOfWholeBatch ==
    /\ DispatchesLogged <= 1
    /\ run.pc = "done"
       => DispatchesLogged = IF Len(run.allCollectionTree) > 0 THEN 1 ELSE 0
    /\ \A i \in 1 .. Len(ioLog) :
          ioLog[i].op = "dispatch"
          => /\ i = Len(ioLog)
             /\ run.pc = "done"
             /\ Len(ioLog[i].payload[1]) > 0
             /\ ioLog[i].payload = ExpectedBatch(run.collectionFiles, <<<<>>, <<>>>>)
             /\ run.appended = run.converted

\* C18 witness: a run has dispatched the trees of two sources after the
\* commits of their environments and of the environment file.
C18_Witness ==
    /\ run.pc = "done"
    /\ DispatchesLogged = 1
    /\ Len(run.converted) = 2
    /\ Len(LastLog.payload[1]) = 4
    /\ Len(SelectSeq(ioLog, LAMBDA e : e.op = "commit")) = 3

CommitsLogged == SelectSeq(ioLog, LAMBDA e : e.op = "commit")

C19_CommitStep ==
    run.pc = "import"
    => LET name == run.collectionFiles[run.idx].name
       IN  IF Len(Incoming) > 0
           THEN /\ ioLog' = ioLog \o <<LogEntry("convert", name, <<>>, ""),
                                       LogEntry("commit", name, workspaceEnvs', "")>>
                /\ workspaceEnvs' =
                      IF AUTO_LOAD.MERGE_ENVIRONMENTS
                      THEN mergeArraysByProperty(workspaceEnvs, Incoming)
                      ELSE Incoming
           ELSE /\ ioLog' = Append(ioLog, LogEntry("convert", name, <<>>, ""))
                /\ workspaceEnvs' = workspaceEnvs

C19_CommitsFollowTheirSource ==
    /\ \A i \in 1 .. Len(ioLog) :
          (ioLog[i].op = "commit" /\ ioLog[i].what \in CollectionSources)
          => i > 1 /\ ioLog[i - 1] = LogEntry("convert", ioLog[i].what, <<>>, "")
    /\ run.pc \in {"readEnvironment", "environment", "dispatch", "done"}
       => Len(SelectSeq(CommitsLogged, LAMBDA e : e.what \in CollectionSources))
          = Len(SelectSeq(run.collectionFiles,
                          LAMBDA f : Len(EmbeddedEnvironments(f)) > 0))

\* C19: during collection ingestion each source that carries a non-empty
\* environments list is followed at once, before the next source is
\* converted, by one 'updateWorkspaceEnvironments' commit whose payload is the
\* workspace's environment list after that source's merge; a source without
\* environments causes no commit.
C19_CommitPerSource ==
    /\ [][C19_CommitStep]_vars
    /\ []C19_CommitsFollowTheirSource

\* C19 witness: two collection sources were converted, each followed by its
\* own commit before anything else happened.
C19_Witness ==
    /\ Len(ioLog) >= 7
    /\ ioLog[4].op = "convert" /\ ioLog[4].what = "c1.json"
    /\ ioLog[5].op = "commit" /\ ioLog[5].what = "c1.json"
    /\ ioLog[6].op = "convert" /\ ioLog[6].what = "c2.json"
    /\ ioLog[7].op = "commit" /\ ioLog[7].what = "c2.json"
    /\ ioLog[7].payload # ioLog[5].payload

NonEmptyLists == SelectSeq(EnvLists, LAMBDA l : Len(l) > 0)

C20_ReplaceStep ==
    (~AUTO_LOAD.MERGE_ENVIRONMENTS /\ Len(Incoming) > 0) => workspaceEnvs' = Incoming

C20_LastListStands ==
    (~AUTO_LOAD.MERGE_ENVIRONMENTS /\ run.pc = "done" /\ ~run.configData.isNull)
    => workspaceEnvs = IF Len(NonEmptyLists) > 0
                       THEN NonEmptyLists[Len(NonEmptyLists)]
                       ELSE InitialEnvironments

C16_ReadinessPollBounded ==
    /\ poll.attempts <= pollMaxAttempts
    /\ poll.pc = "polling" => poll.waits = poll.attempts /\ ~poll.initialized
    /\ poll.pc = "waiting"
       => /\ poll.waits = poll.attempts - 1
          /\ poll.attempts < pollMaxAttempts
          /\ ~poll.initialized
    /\ poll.pc \in {"config", "objects", "fetched"}
       => /\ poll.initialized
          /\ poll.waits = poll.attempts - 1
          /\ StatusReply.initialized
          /\ run.pc = "idle"
    /\ poll.pc = "fetched"
       => ioLog = <<LogEntry("http", "config", <<>>, ""),
                    LogEntry("http", "objects", <<>>, query.reply)>>
    /\ poll.pc = "timedOut"
       => /\ poll.attempts = pollMaxAttempts
          /\ poll.waits = pollMaxAttempts - 1
          /\ ~poll.initialized
          /\ run.pc = "done"
          /\ Ret = Result(FALSE, "ReadinessTimeout", 0, 0)
          /\ ioLog = <<>>
          /\ workspaceEnvs = InitialEnvironments
          /\ store = IdleStore
    /\ poll.pc # "timedOut" => ~Ret.returned

\* C16 witness: the 30th poll was answered not initialized by a service whose
\* config document is no object, and the run has failed.
C16_Witness ==
    /\ poll.pc = "timedOut"
    /\ Startup.pc = "done"
    /\ ~Startup.config.isObject
    /\ ~Ret.success

(***************************************************************************)
(* Claims about processImportFile and the config parser                    *)
(***************************************************************************)
OldIds(tree) == {tree[i].id : i \in 1 .. Len(tree)}

\* For every plugin of the batch the sources of the run make up, the ids the
\* nodes of its own source had before the remap.
RECURSIVE OwnOldIds(_, _)
OwnOldIds(fs, acc) ==
    IF Len(fs) = 0 THEN acc
    ELSE LET c == ConvertByType(Head(fs), AUTO_LOAD.DEFAULT_IMPORT_TYPE)
             res == processImportFile(Head(fs), AUTO_LOAD.DEFAULT_IMPORT_TYPE, 0)
         IN  OwnOldIds(Tail(fs),
                       IF res.threw THEN acc
                       ELSE acc \o [i \in 1 .. Len(res.plugins) |-> OldIds(c.collectionTree)])

\* C21: processImportFile rewrites the collectionId of every plugin of the
\* source that is a key of the old-id-to-new-id mapping to the mapped value
\* and leaves every other plugin as it is; no plugin of the dispatched batch
\* refers to a pre-remap id of a node of its own source.
C21_PluginsFollowRemap ==
    /\ run.pc = "import"
       => LET file == run.collectionFiles[run.idx]
              c == ConvertByType(file, AUTO_LOAD.DEFAULT_IMPORT_TYPE)
              m == NewIdMapping(c.collectionTree, run.nextId)
              res == processImportFile(file, AUTO_LOAD.DEFAULT_IMPORT_TYPE, run.nextId)
          IN  ~res.threw
              => /\ Len(res.plugins) = Len(c.plugins)
                 /\ DOMAIN m = OldIds(c.collectionTree)
                 /\ \A i \in 1 .. Len(c.plugins) :
                       res.plugins[i] =
                           IF c.plugins[i].collectionId \in DOMAIN m
                           THEN Plugin(m[c.plugins[i].collectionId])
                           ELSE c.plugins[i]
    /\ \A k \in 1 .. Len(ioLog) :
          ioLog[k].op = "dispatch"
          => LET sent == ioLog[k].payload[2]
                 own == OwnOldIds(run.collectionFiles, <<>>)
             IN  /\ Len(own) = Len(sent)
                 /\ \A i \in 1 .. Len(sent) : sent[i].collectionId \notin own[i]

\* C21 witness: a batch of two native exports with the same node ids was
\* dispatched; of each source one plugin was rewritten to a new id and the
\* plugin of a collection outside the import was left as it was.
C21_Witness ==
    /\ run.pc = "done"
    /\ DispatchesLogged = 1
    /\ Len(run.converted) = 2
    /\ LastLog.payload[2]
         = <<Plugin(FreshIdBase + 1), Plugin(7), Plugin(FreshIdBase + 3), Plugin(7)>>

\* The top-level key line k lies under: the text of the last key line before
\* it, "" when there is none.
IsKeyLine(line) == Trim(line) \in {"collections:", "environments:", "other:"}
KeyAbove(lines, k) ==
    IF \E j \in 1 .. k - 1 : IsKeyLine(lines[j])
    THEN Trim(lines[CHOOSE j \in 1 .. k - 1 :
                       IsKeyLine(lines[j]) /\ \A i \in j + 1 .. k - 1 : ~IsKeyLine(lines[i])])
    ELSE ""
Increasing(ks) == \A i, j \in 1 .. Len(ks) : i < j => ks[i] < ks[j]

\* C22 as stated: parseSimpleYaml takes into the collections list only list
\* items that lie under the key collections and into the environments list
\* only items that lie under the key environments, so that items under another
\* top-level key or before any recognized key are in neither list; the items
\* of each list keep their document order.
C22_UnknownKeysIgnored ==
    /\ \A i \in 1 .. Len(yaml.fromC) : KeyAbove(yaml.lines, yaml.fromC[i]) = "collections:"
    /\ \A i \in 1 .. Len(yaml.fromE) : KeyAbove(yaml.lines, yaml.fromE[i]) = "environments:"
    /\ Increasing(yaml.fromC) /\ Increasing(yaml.fromE)
    /\ Len(yaml.result.collections) = Len(yaml.fromC)
    /\ Len(yaml.result.environments) = Len(yaml.fromE)

(***************************************************************************)
(* Claims about the response a load cycle reads                            *)
(***************************************************************************)
Stored(r) == r.result.collections \o r.result.environments

C23_StoreStep ==
    Stored(Startup') # Stored(Startup)
    => /\ Startup.pc = "reading"
       /\ Startup.response.present /\ Startup.response.ok
       /\ Startup.response.of = CurrentPath(Startup)
       /\ Startup.gotOk /\ Startup.nFetch >= 1
       /\ Startup.response.text = Startup.okText
       /\ Stored(Startup') = Append(Stored(Startup),
                                    [name |-> Basename(CurrentPath(Startup)),
                                     content |-> JSONparse(Startup.response.text)])

C23_StaleNeverStored ==
    (Startup.pc = "reading" /\ Startup.response.of # CurrentPath(Startup))
    => /\ Stored(AfterText(Startup)) = Stored(Startup)
       /\ ~Startup.gotOk
       /\ Startup.attempts = maxAttempts

\* C23: whatever a load cycle stores for a source is the body of an ok
\* response to a fetch of that source's path made for that source in this
\* cycle; the response left in the shared variable by an earlier source is
\* never stored for a later source whose own attempts all failed (its body
\* was read before, so reading it again fails and the source is skipped).
C23_OwnResponseOnly ==
    /\ [][C23_StoreStep]_vars
    /\ []C23_StaleNeverStored

\* C23 witness: after the first source was loaded every fetch of the second
\* was refused, so that the loop ended on the first source's ok response; the
\* cycle has gone on with the first source's entry only.
C23_Witness ==
    /\ Startup.pc \in {"mkdir", "writing", "manifest", "returning", "done"}
    /\ Startup.config.collections = <<PathAX, PathBX>>
    /\ Startup.nExhausted = 1
    /\ Startup.response.ok /\ Startup.response.of = PathAX
    /\ Startup.result.collections = <<[name |-> "x.json", content |-> [v |-> 1]]>>

(***************************************************************************)
(* Claims about the cache as a whole                                       *)
(***************************************************************************)
\* The startup cycle has written its blobs and its manifest, no reload has
\* arrived, and an objects query that arrived after the cycle had returned
\* has been answered.
AnsweredFromStartupCache ==
    /\ \A c \in Reloads : cyc[c].pc = "idle"
    /\ Startup.pc = "done"
    /\ manifest.state = "ok" /\ manifest.by = StartupCycle
    /\ query.pc = "done" /\ query.since = StartupCycle /\ query.quiet

\* C24 as stated: when a cycle's cache write has succeeded and no other cycle
\* has written since, getCachedObjects returns the collections and the
\* environments that loadConfiguredObjects returned (same names, contents and
\* order), also for a config of which two sources have the same last path
\* segment.
C24_CacheRoundTrip ==
    AnsweredFromStartupCache
    => query.reply = "200" /\ Payload = Entries(Startup.result)

\* C25 as stated: once the status query has reported initialized=true it
\* reports initialized=true ever after, whatever reload commands follow and
\* however they end.
C25_ReadinessMonotonic ==
    [][StatusReply.initialized => StatusReply.initialized']_vars

\* C26 as stated: whenever the status query reports initialized=true, an
\* objects query made in that state (no cycle running, autoLoadedObjects as
\* it was when the query arrived) is not answered 404, and its payload lists
\* exactly the entries of autoLoadedObjects, also when the cache write of the
\* cycle failed.
C26_StatusAndObjectsAgree ==
    (/\ StatusReply.initialized
     /\ query.pc = "done" /\ query.quiet /\ query.since = holder)
    => /\ query.reply # "404"
       /\ Payload = Entries(autoLoadedObjects)

\* A reload arrived while the startup load was running, and both cycles have
\* finished: the startup load, which began first, has returned last.  The
\* cache directory was writable throughout, and a manifest is in place.
OverlapFinished ==
    /\ \A c \in Cycles : cyc[c].pc = "done"
    /\ holder = StartupCycle
    /\ diskOk /\ manifest.state = "ok"

\* C27 as stated: once two overlapping fetch-and-cache cycles have both
\* finished, the manifest and every blob it lists were written by the same
\* cycle, and that cycle is the one whose result autoLoadedObjects holds.
C27_OverlapLeavesOneCycle ==
    OverlapFinished
    => /\ \A i \in 1 .. Len(BlobReads(manifest)) :
             blobs[BlobReads(manifest)[i]].by = manifest.by
       /\ manifest.by = holder

(***************************************************************************)
(* Claims about the counts of a run                                        *)
(***************************************************************************)
\* C28 as stated: a run that returns success=true counts in collectionsLoaded
\* exactly the collection sources whose tree and plugins were appended to the
\* batch, also when the environment commit of a source threw after its tree
\* was appended; a run that returns success=false reports both counts as 0.
C28_CountedIsAppended ==
    run.pc = "done"
    => IF Ret.success
       THEN /\ run.counted = run.appended
            /\ Ret.collectionsLoaded = Len(run.appended)
       ELSE Ret.collectionsLoaded = 0 /\ Ret.environmentsLoaded = 0

====
